---------------------------- MODULE Spec2Model ----------------------------
(***************************************************************************)
(* A model of the dataviz reactive pipeline:                               *)
(*   - columnar() (data/columnar.ts) and the column plot mixin that        *)
(*     subscribes to it (render/mixins/createColumnPlotMixin.ts);          *)
(*   - the play-counts example (examples/play-counts.ts): an interval      *)
(*     source piped through accumulate() and sort();                       *)
(*   - the column plot's geometry getters and the SvgRoot mixin            *)
(*     (render/mixins/createSvgRootMixin.ts): height, width, tagName.      *)
(*                                                                         *)
(* Streams are RxJS 5 observables.  A subscription is a record of flags;   *)
(* one action is one turn of the event loop: a producer's callback, an     *)
(* 'inputserieschange' event or the destruction of the widget, run to      *)
(* completion with everything it calls synchronously.                      *)
(*                                                                         *)
(* Numbers: inputs, values and divisors are integers.  A relative value    *)
(* is the quotient value / divisor, kept as the pair <<value, divisor>>    *)
(* so that division by zero (Infinity, -Infinity, NaN) has a sign as in    *)
(* IEEE arithmetic.                                                        *)
(***************************************************************************)
EXTENDS Integers, Sequences, FiniteSets, TLC

\* ------------------------------------------------------------- bounds
\* Number of input series a plot is given over its life.
MaxSubs == 2
\* Number of records in the play-counts example's data.
MaxData == 3

\* ------------------------------------------------------------- inputs
\* T, the opaque input record: here a number the selectors read.
Inputs == {-3, 0, 2}
\* One emission of an InputObservable<T> is an array of inputs.
Emissions == {<<>>, <<2>>, <<-3>>, <<0>>, <<2, -3>>}
\* Divisors an independent divisor stream may emit.
Divisors == {-2, 0, 1}

\* -------------------------------------------------- caller's functions
\* A ValueSelector<T>.  "ident" reads the input as its value, "negate"
\* its opposite, "throwing" throws on the input 0 and reads the others.
NoSelector == [id |-> "none", kind |-> "none"]
OptionSelectors ==
    {[id |-> "option", kind |-> "ident"], [id |-> "option", kind |-> "throwing"]}
MixinSelectors == {[id |-> "mixin", kind |-> "negate"]}

\* A DivisorOperator<T>.  "of" is Observable.of(d): d once, synchronously,
\* then completion.  "derived" subscribes to the observable it is given and
\* emits, per source emission, the sum of the selected values.  "async" is a
\* stream of its own that emits any divisor at any time, or never.
NoOperator == [id |-> "none", kind |-> "none", d |-> 0]
OptionOperators ==
    {[id |-> "option", kind |-> "derived", d |-> 0],
     [id |-> "option", kind |-> "async", d |-> 0]}
MixinOperators == {[id |-> "mixin", kind |-> "of", d |-> 3]}

\* An input series: "async" emits only from later turns of the event loop;
\* "syncOpen" emits `first` synchronously inside subscribe() and stays open;
\* "syncComplete" emits `first` and completes inside subscribe().
SourceKinds == {"async", "syncOpen", "syncComplete"}

VARIABLES
    \* --- column plot (createColumnPlotMixin.ts)
    optDivisor,     \* options.divisorOperator, or NoOperator
    mixDivisor,     \* instance.divisorOperator, or NoOperator
    optSelector,    \* options.valueSelector, or NoSelector
    mixSelector,    \* instance.valueSelector, or NoSelector
    series,         \* privateStateMap.get(instance).series
    dirty,          \* instance.invalidate() has been called
    handle,         \* index in subs of the subscription `handle` destroys, 0: unset
    destroyed,      \* the instance was destroyed (its owned handles with it)
    mixDivCalls,    \* number of calls of instance.divisorOperator
    subs,           \* the columnar subscriptions made so far, oldest first
    turn,           \* the last turn: what happened, to which subscription,
                    \* and the Column arrays its subscriber received
    \* --- play-counts example (examples/play-counts.ts)
    pcAll,          \* `data` as the source's subscribe function creates it
    pcData,         \* `data`: the records not yet shifted
    pcTimer,        \* the setInterval handle is active
    pcSub,          \* the subscriber: idle, subscribed, unsubscribed, complete
    pcKeyed,        \* accumulate() merges by key (TRUE) or appends (FALSE)
    pcAcc,          \* accumulate(): the sequence accumulated so far
    pcSnapshots,    \* every snapshot accumulate() has emitted, oldest first
    pcOut,          \* every snapshot the subscriber received from sort()
    \* --- column plot geometry (createColumnPlotMixin.ts)
    cpState,        \* instance.state: columnHeight, columnSpacing,
                    \* columnWidth, domain, each <<>> when not present
    cpMixin,        \* the instance's mixed-in defaults of the same names
    cpRead,         \* the last getter called and what it returned
    \* --- SvgRoot (createSvgRootMixin.ts)
    svgOptions,     \* the options the instance was created with
    svgState,       \* <<instance.state>>, <<>> when the instance has none
    svgPriv,        \* privateStateMap.get(instance)
    svgAssigned,    \* the last value assigned to tagName, <<>> if none
    svgTurn         \* the last access: its kind, its argument, what it
                    \* returned and its calls of invalidate()

plotVars == <<optDivisor, mixDivisor, optSelector, mixSelector, series, dirty,
              handle, destroyed, mixDivCalls, subs, turn>>

pcVars == <<pcAll, pcData, pcTimer, pcSub, pcKeyed, pcAcc, pcSnapshots, pcOut>>

cpVars == <<cpState, cpMixin, cpRead>>

svgVars == <<svgOptions, svgState, svgPriv, svgAssigned, svgTurn>>

widgetVars == <<cpVars, svgVars>>

vars == <<plotVars, pcVars, widgetVars>>

cfgVars == <<optDivisor, mixDivisor, optSelector, mixSelector>>


\* ------------------------------------------------------------- numbers
\* value / divisor as JavaScript computes it, kept as <<value, divisor>>.
Quotient(value, divisor) == <<value, divisor>>

\* relativeValue > 0: a positive quotient, or +Infinity (x / 0 with x > 0).
FracPos(f) == (f[1] > 0 /\ f[2] >= 0) \/ (f[1] < 0 /\ f[2] < 0)

\* relativeValue < 0: a negative quotient, or -Infinity (x / 0 with x < 0).
\* 0 / 0 is NaN, which is neither above nor below zero.
FracNeg(f) == (f[1] < 0 /\ f[2] >= 0) \/ (f[1] > 0 /\ f[2] < 0)

\* relativeValue *= -1
FracNegate(f) == <<-f[1], f[2]>>

\* Two quotients denote the same number (NaN equals only NaN here).
FracEq(f, g) ==
    IF f[2] = 0 \/ g[2] = 0
    THEN f[2] = 0 /\ g[2] = 0
         /\ (FracPos(f) <=> FracPos(g)) /\ (FracNeg(f) <=> FracNeg(g))
    ELSE f[1] * g[2] = g[1] * f[2]

\* ------------------------------------------------- results and errors
NoError == [by |-> "none", input |-> 0]
Returned(v) == [ok |-> TRUE, v |-> v, err |-> NoError]
Thrown(by, x) == [ok |-> FALSE, v |-> 0, err |-> [by |-> by, input |-> x]]

\* A caller-supplied selector applied to one input.
ApplySelector(s, x) ==
    CASE s.kind = "ident" -> Returned(x)
      [] s.kind = "negate" -> Returned(-x)
      [] s.kind = "throwing" -> IF x = 0 THEN Thrown(s.id, x) ELSE Returned(x)
      [] OTHER -> Returned(0)

\* Mutant of Selector: the wrapper is tried first, so a mixed-in selector
\* overrides the option.
SelectorMixinFirst(x) ==
    IF mixSelector # NoSelector THEN ApplySelector(mixSelector, x)
    ELSE IF optSelector # NoSelector THEN ApplySelector(optSelector, x)
    ELSE Returned(0)

\* Mutant of Selector: "don't throw at runtime" taken too far, a selector
\* that throws is caught and 0 returned.
SelectorCatching(x) ==
    LET res == IF optSelector # NoSelector THEN ApplySelector(optSelector, x)
               ELSE IF mixSelector # NoSelector THEN ApplySelector(mixSelector, x)
               ELSE Returned(0)
    IN  IF res.ok THEN res ELSE Returned(0)

\* initialize(): `selector`, the option if one was passed, otherwise a wrapper
\* that calls the mixed-in valueSelector if the instance has one and
\* otherwise returns 0.
Selector(x) ==
    IF optSelector # NoSelector THEN ApplySelector(optSelector, x)
    ELSE IF mixSelector # NoSelector THEN ApplySelector(mixSelector, x)
    ELSE Returned(0)

\* initialize(): `operator`, the option if one was passed, otherwise a wrapper
\* that calls the mixed-in divisorOperator if the instance has one and
\* otherwise returns Observable.of(1).
DefaultOperator == [id |-> "default", kind |-> "of", d |-> 1]

\* Mutant of Operator: a mixed-in operator overrides the option.
OperatorMixinFirst ==
    IF mixDivisor # NoOperator THEN mixDivisor
    ELSE IF optDivisor # NoOperator THEN optDivisor
    ELSE DefaultOperator

Operator ==
    IF optDivisor # NoOperator THEN optDivisor
    ELSE IF mixDivisor # NoOperator THEN mixDivisor
    ELSE DefaultOperator

\* Whether calling `operator` calls instance.divisorOperator.
OperatorCallsMixin == optDivisor = NoOperator /\ mixDivisor # NoOperator

\* Index of the first input of e the selector throws on, 0 if none.
FirstThrow(e) ==
    LET bad == {k \in 1..Len(e) : ~Selector(e[k]).ok}
    IN  IF bad = {} THEN 0 ELSE CHOOSE k \in bad : \A j \in bad : k <= j

\* relativeValues(): for the latest inputs and the latest divisor, the pairs
\* [input, valueSelector(input) / divisor].
RelativeValues(e, d) ==
    LET t == FirstThrow(e)
    IN  IF t # 0
        THEN [ok |-> FALSE, pairs |-> <<>>, err |-> Selector(e[t]).err]
        ELSE [ok |-> TRUE,
              pairs |-> [k \in 1..Len(e) |->
                            <<e[k], Quotient(Selector(e[k]).v, d)>>],
              err |-> NoError]

\* Mutant of SignCorrect: only the positive values are corrected.
SignCorrectPositiveOnly(value, relativeValue) ==
    IF value > 0 /\ FracNeg(relativeValue)
    THEN FracNegate(relativeValue)
    ELSE relativeValue

\* columnar(): the sign correction of one pair.
SignCorrect(value, relativeValue) ==
    IF (value < 0 /\ FracPos(relativeValue)) \/ (value > 0 /\ FracNeg(relativeValue))
    THEN FracNegate(relativeValue)
    ELSE relativeValue

\* columnar(): one [input, relativeValue] pair to a Column.
ToColumn(pair) ==
    LET value == Selector(pair[1]).v
    IN  [input |-> pair[1],
         relativeValue |-> SignCorrect(value, pair[2]),
         value |-> value]

\* columnar(): the function given to map(), over one array of pairs.  A
\* selector that throws makes map() send the error downstream.
ColumnarMap(pairs) ==
    LET bad == {k \in 1..Len(pairs) : ~Selector(pairs[k][1]).ok}
    IN  IF bad # {}
        THEN [ok |-> FALSE, cols |-> <<>>,
              err |-> Selector(pairs[CHOOSE k \in bad : \A j \in bad : k <= j][1]).err]
        ELSE [ok |-> TRUE, cols |-> [k \in 1..Len(pairs) |-> ToColumn(pairs[k])],
              err |-> NoError]


\* ------------------------------------------- one columnar subscription
\* columnar(source, selector, operator).subscribe(...): the state of the
\* chain  source -> share() -> {operator, relativeValues} -> map -> subscriber.
\*   op           the divisor operator columnar() was given
\*   srcSubs      how many times the source has been subscribed to
\*   conn         share(): a live connection to the source
\*   prod         the source's producer is running (it may outlive conn)
\*   relShared    relativeValues' subscription to the shared source
\*   divShared    the operator's subscription to the shared source
\*   divSub       relativeValues' subscription to the divisor stream
\*   latestSrc    relativeValues: the latest inputs, <<>> if none yet
\*   latestDiv    relativeValues: the latest divisor, <<>> if none yet
\*   out          the output: live, unsubscribed, error or complete
\*   err          the error the output ended with, <<>> if none
\*   sharedEmitted, divEmitted   the shared source (the divisor stream) has
\*                produced a value
\*   em           Column arrays sent to the subscriber in this turn
NewSub(op) ==
    [op |-> op, srcSubs |-> 0, conn |-> FALSE, prod |-> FALSE,
     relShared |-> "none", divShared |-> "none", divSub |-> "none",
     latestSrc |-> <<>>, latestDiv |-> <<>>, out |-> "live", err |-> <<>>,
     sharedEmitted |-> FALSE, divEmitted |-> FALSE, em |-> <<>>]

CloseSub(s) == IF s = "live" THEN "closed" ELSE s

\* Unsubscribing the output unsubscribes the chain behind it: both inner
\* subscriptions of relativeValues, with them the operator's subscription to
\* the shared source, and, the reference count of share() at zero, the source.
\* The operators' buffers are no longer reachable.
Teardown(r) ==
    [r EXCEPT !.relShared = CloseSub(@), !.divShared = CloseSub(@),
              !.divSub = CloseSub(@), !.conn = FALSE,
              !.latestSrc = <<>>, !.latestDiv = <<>>]

\* The output errors: the subscriber unsubscribes from upstream.
Fail(r, err) == [Teardown(r) EXCEPT !.out = "error", !.err = <<err>>]

\* The output completes.
Complete(r) == [Teardown(r) EXCEPT !.out = "complete"]

\* subscription.unsubscribe()
Unsubscribe(r) ==
    IF r.out = "live" THEN [Teardown(r) EXCEPT !.out = "unsubscribed"] ELSE r

\* columnar(): the map after relativeValues; a throw in it errors the output.
ProjectMap(r, m) ==
    IF ~m.ok THEN Fail(r, m.err) ELSE [r EXCEPT !.em = Append(@, m.cols)]

\* relativeValues(): a selector that throws errors the output; otherwise the
\* [input, relative value] pairs go to columnar's map.
ProjectRel(r, rel) ==
    IF ~rel.ok THEN Fail(r, rel.err) ELSE ProjectMap(r, ColumnarMap(rel.pairs))

\* columnar(): relativeValues(shared, valueSelector, divisors).map(...) on
\* one combination of latest inputs and latest divisor.
Project(r, e, d) == ProjectRel(r, RelativeValues(e, d))

\* relativeValues(): the shared source advanced.
RelOnSource(r, e) ==
    IF r.latestDiv # <<>>
    THEN Project([r EXCEPT !.latestSrc = <<e>>], e, r.latestDiv[1])
    ELSE [r EXCEPT !.latestSrc = <<e>>]

\* relativeValues(): the divisor stream advanced.
RelOnDivisor(r, d) ==
    IF r.latestSrc # <<>>
    THEN Project([r EXCEPT !.latestDiv = <<d>>], r.latestSrc[1], d)
    ELSE [r EXCEPT !.latestDiv = <<d>>]

\* The divisor stream emits d to relativeValues.
DivisorNext(r, d) ==
    IF r.divSub = "live"
    THEN RelOnDivisor([r EXCEPT !.divEmitted = TRUE], d)
    ELSE r

\* relativeValues(): its output completes once both inputs have.
CheckComplete(r) ==
    IF r.out = "live" /\ r.relShared = "done" /\ r.divSub = "done"
    THEN Complete(r) ELSE r

RECURSIVE SumValues(_)
\* The "derived" operator's divisor: the sum of the selected values.
SumValues(e) ==
    IF e = <<>> THEN 0 ELSE Selector(Head(e)).v + SumValues(Tail(e))

\* The "derived" operator receives inputs from the shared source; a selector
\* that throws errors the divisor stream, and relativeValues with it.
DerivedOnSource(r, e) ==
    IF FirstThrow(e) # 0 THEN Fail(r, Selector(e[FirstThrow(e)]).err)
    ELSE DivisorNext(r, SumValues(e))

\* share(): the subject hands the inputs to relativeValues, if subscribed.
SharedNextRel(r, e) ==
    IF r.relShared = "live" THEN RelOnSource(r, e) ELSE r

\* share(): the subject hands the inputs to the operator, if subscribed.
SharedNextOperator(r, e) ==
    IF r.divShared = "live" THEN DerivedOnSource(r, e) ELSE r

\* Mutant of SharedNext: the operator is served before relativeValues.
SharedNextOperatorFirst(r, e) ==
    SharedNextRel(SharedNextOperator([r EXCEPT !.sharedEmitted = TRUE], e), e)

\* share(): the subject sends the source's inputs to its subscribers, in the
\* order they subscribed: relativeValues, then the operator.
SharedNext(r, e) ==
    SharedNextOperator(SharedNextRel([r EXCEPT !.sharedEmitted = TRUE], e), e)

\* share(): the source completed.  The connection is dropped, the subject
\* completes its subscribers, and a "derived" divisor stream completes too.
SharedComplete(r) ==
    CheckComplete([r EXCEPT !.conn = FALSE,
                            !.relShared = IF @ = "live" THEN "done" ELSE @,
                            !.divSub = IF r.divShared = "live" /\ @ = "live"
                                       THEN "done" ELSE @,
                            !.divShared = IF @ = "live" THEN "done" ELSE @])

\* share(): a source that emits before subscribe() returns.
ConnectEmit(r, src) ==
    IF src.kind = "async" THEN r ELSE SharedNext(r, src.first)

\* share(): a source that completes before subscribe() returns; the
\* completion reaches the subject unless the connection was torn down.
ConnectDone(r, src) ==
    IF src.kind # "syncComplete" THEN r
    ELSE IF r.conn THEN SharedComplete([r EXCEPT !.prod = FALSE])
    ELSE [r EXCEPT !.prod = FALSE]

\* share(): connect to the source, which may emit, and complete, before
\* subscribe() returns.
Connect(r, src) ==
    ConnectDone(ConnectEmit([r EXCEPT !.conn = TRUE, !.prod = TRUE,
                                      !.srcSubs = @ + 1], src), src)

\* share(): without a live connection (the first subscriber, or one that
\* comes after the source completed) the source is subscribed to.
SubscribeSharedJoin(r, src) ==
    IF r.conn THEN r ELSE Connect(r, src)

\* share(): a subscriber joins the shared source.
SubscribeShared(r, who, src) ==
    SubscribeSharedJoin(IF who = "rel" THEN [r EXCEPT !.relShared = "live"]
                        ELSE [r EXCEPT !.divShared = "live"], src)

\* Observable.of(d) completes right after its one value.
OfDone(r) ==
    IF r.out = "live" THEN CheckComplete([r EXCEPT !.divSub = "done"]) ELSE r

\* relativeValues() subscribes to the divisor stream the operator returned.
SubscribeDivisors(r, src) ==
    CASE r.op.kind = "of" ->
           OfDone(DivisorNext([r EXCEPT !.divSub = "live"], r.op.d))
      [] r.op.kind = "derived" ->
           SubscribeShared([r EXCEPT !.divSub = "live"], "div", src)
      [] OTHER -> [r EXCEPT !.divSub = "live"]

\* relativeValues() subscribes to the shared source first, to the divisors
\* second, unless the first subscription already ended the output.
SubscribeRest(r, src) ==
    IF r.out = "live" THEN SubscribeDivisors(r, src) ELSE r

\* Mutant of SubscribeColumnar: the divisors start with 1, as with
\* divisors.startWith(1).
SubscribeColumnarSeeded(src, op) ==
    SubscribeRest(SubscribeShared([NewSub(op) EXCEPT !.latestDiv = <<1>>],
                                  "rel", src), src)

\* columnar(observable, valueSelector, divisorOperator).subscribe(...)
SubscribeColumnar(src, op) ==
    SubscribeRest(SubscribeShared(NewSub(op), "rel", src), src)


\* ---------------------------------------------------- the column plot
\* What the plot's subscriber does with the Column arrays of one turn:
\* each replaces the stored series and invalidates the widget.
StoreSeries(old, em) == IF em = <<>> THEN old ELSE em[Len(em)]

\* The record of a turn: kind is "subscribe", "source", "complete",
\* "divisor" or "destroy"; arg the inputs or <<divisor>> a live chain was
\* given; out the Column arrays that reached the subscriber, in order.
TurnOf(kind, i, arg, em) == [kind |-> kind, sub |-> i, arg |-> arg, out |-> em]

NoTurn == TurnOf("none", 0, <<>>, <<>>)

\* Mutant of DestroyHandle: destroy() forgets to unsubscribe.
DestroyHandleNoop(ss, h) == ss

\* handle.destroy(): subscription.unsubscribe() of the subscription the
\* handle was created for.
DestroyHandle(ss, h) ==
    IF h = 0 THEN ss ELSE [ss EXCEPT ![h] = Unsubscribe(@)]

\* A subscription the plot no longer refers to: what it buffered and what
\* it has seen are unreachable; its source's producer may still run.
Retired(r) ==
    [r EXCEPT !.relShared = IF @ = "live" THEN @ ELSE "closed",
              !.divShared = IF @ = "live" THEN @ ELSE "closed",
              !.divSub = IF @ = "live" THEN @ ELSE "closed",
              !.err = IF r.out = "live" THEN @ ELSE <<>>,
              !.sharedEmitted = IF r.out = "live" THEN @ ELSE FALSE,
              !.divEmitted = IF r.out = "live" THEN @ ELSE FALSE]

\* subscribe(): `handle` is overwritten, the subscriptions made before are
\* no longer referred to.
RetireAll(ss) == [k \in 1..Len(ss) |-> Retired(ss[k])]

\* Mutant of DestroyPrevious: subscribe() without `if (handle) {
\* handle.destroy(); }`.
DestroyPreviousSkipped(ss, h) == RetireAll(ss)

\* subscribe(): `if (handle) { handle.destroy(); }`, after which `handle`
\* is overwritten.
DestroyPrevious(ss, h) == RetireAll(DestroyHandle(ss, h))

\* subscribe(): the previous handle is destroyed, then the new chain, run to
\* state r, becomes subscription i.  A selector that throws inside
\* subscribe() leaves `handle` as it was.
Subscribed(src, i, r) ==
    /\ subs' = Append(DestroyPrevious(subs, handle), [r EXCEPT !.em = <<>>])
    /\ turn' = TurnOf("subscribe", i, src.first, r.em)
    /\ series' = StoreSeries(series, r.em)
    /\ dirty' = (dirty \/ r.em # <<>>)
    /\ handle' = IF r.out = "error" THEN handle ELSE i

\* initialize(): subscribe(inputSeries), for the series the instance has at
\* construction and on every 'inputserieschange' event.
InputSeriesChange(src) ==
    /\ ~destroyed
    /\ Len(subs) < MaxSubs
    /\ Subscribed(src, Len(subs) + 1, SubscribeColumnar(src, Operator))
    /\ mixDivCalls' = IF OperatorCallsMixin THEN mixDivCalls + 1 ELSE mixDivCalls
    /\ UNCHANGED <<cfgVars, destroyed, pcVars, widgetVars>>

\* One turn in which subscription i's chain runs to state r.
Turn(kind, i, arg, r) ==
    /\ subs' = [subs EXCEPT ![i] = [r EXCEPT !.em = <<>>]]
    /\ turn' = TurnOf(kind, i, arg, r.em)
    /\ series' = StoreSeries(series, r.em)
    /\ dirty' = (dirty \/ r.em # <<>>)
    /\ UNCHANGED <<cfgVars, handle, destroyed, mixDivCalls, pcVars, widgetVars>>

\* The producer of input series i calls next(e).  A producer that was not
\* stopped calls it on a closed subscriber, which ignores the call.
SourceEmit(i, e) ==
    /\ subs[i].prod
    /\ IF subs[i].conn
       THEN Turn("source", i, e, SharedNext(subs[i], e))
       ELSE Turn("source", i, <<>>, subs[i])

\* The producer of input series i calls complete().
SourceComplete(i) ==
    /\ subs[i].prod
    /\ Turn("complete", i, <<>>,
            IF subs[i].conn THEN SharedComplete([subs[i] EXCEPT !.prod = FALSE])
            ELSE [subs[i] EXCEPT !.prod = FALSE])

\* An "async" divisor stream emits d.
DivisorEmit(i, d) ==
    /\ subs[i].op.kind = "async"
    /\ subs[i].divSub \in {"live", "closed"}
    /\ IF subs[i].divSub = "live"
       THEN Turn("divisor", i, <<d>>, DivisorNext(subs[i], d))
       ELSE Turn("divisor", i, <<>>, subs[i])

\* The widget is destroyed: the handles it owns are destroyed, among them
\* `handle` and the 'inputserieschange' listener.
Destroy ==
    /\ ~destroyed
    /\ destroyed' = TRUE
    /\ subs' = DestroyHandle(subs, handle)
    /\ turn' = TurnOf("destroy", handle, <<>>, <<>>)
    /\ UNCHANGED <<cfgVars, series, dirty, handle, mixDivCalls, pcVars, widgetVars>>

\* ------------------------------------------------ play-counts example
\* An artist is <<the, name>>: `the` says the name starts with "The ", and
\* `name` is the rest, a number ordered as the strings are.
Artists == [the : BOOLEAN, name : 1..2]
Counts == {5, 12}
PlayCounts == [artist : Artists, count : Counts]

\* ({ artist }) => artist.replace(/^The\s+/, '')
SortKey(rec) == rec.artist.name

\* accumulate(): the key of an input.
AccKey(rec) == rec.artist

\* Mutant of Accumulate: every input is appended, keyed or not.
AccumulateAppend(acc, rec, keyed) == Append(acc, rec)

\* accumulate(): the snapshot after one more input.  Keyed, an input whose
\* key was seen replaces the earlier entry where it stands; otherwise the
\* input is appended.
Accumulate(acc, rec, keyed) ==
    IF keyed /\ \E k \in 1..Len(acc) : AccKey(acc[k]) = AccKey(rec)
    THEN [k \in 1..Len(acc) |->
             IF AccKey(acc[k]) = AccKey(rec) THEN rec ELSE acc[k]]
    ELSE Append(acc, rec)

\* Mutant of SortInsert: x goes before the elements of the same key.
SortInsertBefore(sorted, x) ==
    LET n == Cardinality({k \in 1..Len(sorted) : SortKey(sorted[k]) < SortKey(x)})
    IN  SubSeq(sorted, 1, n) \o <<x>> \o SubSeq(sorted, n + 1, Len(sorted))

\* sort(): x put into a sorted sequence, after the elements whose key is
\* not greater.
SortInsert(sorted, x) ==
    LET n == Cardinality({k \in 1..Len(sorted) : SortKey(sorted[k]) <= SortKey(x)})
    IN  SubSeq(sorted, 1, n) \o <<x>> \o SubSeq(sorted, n + 1, Len(sorted))

RECURSIVE SortFrom(_, _)
SortFrom(sorted, rest) ==
    IF rest = <<>> THEN sorted
    ELSE SortFrom(SortInsert(sorted, Head(rest)), Tail(rest))

\* sort(): a new sequence, the elements in ascending order of their keys,
\* equal keys in the order they came.
Sort(snapshot) == SortFrom(<<>>, snapshot)

\* Mutant of OnComplete: the last snapshot is emitted again on completion.
OnCompleteReemit(out, acc) == Append(out, Sort(acc))

\* accumulate() and sort() on the source's completion: the completion is
\* passed on, no snapshot is emitted for it.
OnComplete(out, acc) == out

\* Mutant of Shifted: data.pop() in place of data.shift().
ShiftedLast(data) == data[Len(data)]

\* data.shift(): the record the callback hands to subscriber.next().
Shifted(data) == Head(data)

\* getObservable().subscribe(...): the source's subscribe function creates
\* `data` and starts the interval; it returns no teardown.
PcSubscribe ==
    /\ pcSub = "idle"
    /\ pcSub' = "subscribed"
    /\ pcData' = pcAll
    /\ pcTimer' = TRUE
    /\ UNCHANGED <<pcAll, pcKeyed, pcAcc, pcSnapshots, pcOut, plotVars, widgetVars>>

\* The interval's callback with records left: subscriber.next(data.shift()).
\* The record is shifted before next() is called; a closed subscriber
\* ignores the call.
PcTickNext ==
    /\ pcTimer
    /\ pcData # <<>>
    /\ pcData' = Tail(pcData)
    /\ IF pcSub = "subscribed"
       THEN /\ pcAcc' = Accumulate(pcAcc, Shifted(pcData), pcKeyed)
            /\ pcSnapshots' = Append(pcSnapshots, pcAcc')
            /\ pcOut' = Append(pcOut, Sort(pcAcc'))
       ELSE UNCHANGED <<pcAcc, pcSnapshots, pcOut>>
    /\ UNCHANGED <<pcAll, pcTimer, pcSub, pcKeyed, plotVars, widgetVars>>

\* The interval's callback with no record left: subscriber.complete() and
\* clearInterval(handle).
PcTickComplete ==
    /\ pcTimer
    /\ pcData = <<>>
    /\ pcSub' = IF pcSub = "subscribed" THEN "complete" ELSE pcSub
    /\ pcOut' = IF pcSub = "subscribed" THEN OnComplete(pcOut, pcAcc) ELSE pcOut
    /\ pcTimer' = FALSE
    /\ UNCHANGED <<pcAll, pcData, pcKeyed, pcAcc, pcSnapshots, plotVars, widgetVars>>

\* The subscriber unsubscribes.  The source gave no teardown: nothing
\* clears the interval.
PcUnsubscribe ==
    /\ pcSub = "subscribed"
    /\ pcSub' = "unsubscribed"
    /\ UNCHANGED <<pcAll, pcData, pcTimer, pcKeyed, pcAcc, pcSnapshots, pcOut,
                   plotVars, widgetVars>>

\* ------------------------------------------------ column plot geometry
\* An optional field is <<>> when undefined and <<v>> when it holds v.
\* Values of columnHeight, columnSpacing and columnWidth, in the state and
\* mixed in.
StateSizes == {0, 7}
MixinSizes == {0, 3}

\* A DomainOption: a number, v = <<d>>, or an array, v = <<min, max>>.
DomainNumber(d) == [isArray |-> FALSE, v |-> <<d>>]
DomainPair(min, max) == [isArray |-> TRUE, v |-> <<min, max>>]
StateDomains ==
    {DomainNumber(-5), DomainNumber(0), DomainNumber(5), DomainPair(-2, 8),
     DomainPair(5, 3)}
MixinDomains == {DomainNumber(0), DomainNumber(-4), DomainPair(-1, 4)}

\* normalizeDomain(domain)
normalizeDomain(domain) ==
    IF domain.isArray THEN domain.v
    ELSE <<IF domain.v[1] < 0 THEN domain.v[1] ELSE 0,
           IF domain.v[1] > 0 THEN domain.v[1] ELSE 0>>

\* `this.columnHeight || 0`: undefined and 0 are falsy.
OrZero(field) == IF field = <<>> \/ field[1] = 0 THEN 0 ELSE field[1]

\* `this.domain || [ 0, 0 ]`: undefined and the number 0 are falsy, an
\* array never is.
OrZeroDomain(field) ==
    IF field = <<>> \/ (~field[1].isArray /\ field[1].v[1] = 0)
    THEN DomainPair(0, 0) ELSE field[1]

\* Mutant of getColumnHeight: `this.state.columnHeight || this.columnHeight
\* || 0`, a 0 in the state gives way to the default.
getColumnHeightFalsy ==
    IF OrZero(cpState.columnHeight) # 0 THEN cpState.columnHeight[1]
    ELSE OrZero(cpMixin.columnHeight)

\* getColumnHeight(): `const { columnHeight = this.columnHeight || 0 } =
\* this.state`, the default applies when the state has no columnHeight.
getColumnHeight ==
    IF cpState.columnHeight # <<>> THEN cpState.columnHeight[1]
    ELSE OrZero(cpMixin.columnHeight)

\* getColumnSpacing()
getColumnSpacing ==
    IF cpState.columnSpacing # <<>> THEN cpState.columnSpacing[1]
    ELSE OrZero(cpMixin.columnSpacing)

\* getColumnWidth()
getColumnWidth ==
    IF cpState.columnWidth # <<>> THEN cpState.columnWidth[1]
    ELSE OrZero(cpMixin.columnWidth)

\* Mutant of getDomain: the domain is returned as it was given.
getDomainRaw ==
    IF cpState.domain # <<>> THEN cpState.domain[1].v
    ELSE OrZeroDomain(cpMixin.domain).v

\* getDomain(): `const { domain = this.domain || [ 0, 0 ] } = this.state;
\* return normalizeDomain(domain)`
getDomain ==
    normalizeDomain(IF cpState.domain # <<>> THEN cpState.domain[1]
                    ELSE OrZeroDomain(cpMixin.domain))

NoRead == [prop |-> "none", v |-> <<>>]

\* A caller reads one of the four; the result is kept as a sequence, <<n>>
\* for a number and <<min, max>> for a domain.
Read(prop, v) ==
    /\ cpRead' = [prop |-> prop, v |-> v]
    /\ UNCHANGED <<cpState, cpMixin, svgVars, plotVars, pcVars>>

ReadColumnHeight == Read("columnHeight", <<getColumnHeight>>)
ReadColumnSpacing == Read("columnSpacing", <<getColumnSpacing>>)
ReadColumnWidth == Read("columnWidth", <<getColumnWidth>>)
ReadDomain == Read("domain", getDomain)

\* ------------------------------------------------------------ SvgRoot
\* initialize(): `{ height = 150, width = 300 }`
DefaultHeight == 150
DefaultWidth == 300

\* Heights and widths given in options, held by a state, or assigned.
SvgSizes == {10, 20}
\* Values other mixins may assign to tagName.
TagNames == {"div", "g"}

\* An SvgRootState: height and width, each optional.
SvgStates == [height : {<<>>} \cup {<<n>> : n \in SvgSizes},
              width : {<<>>} \cup {<<n>> : n \in SvgSizes}]

\* SvgRootOptions: height, width and, from StatefulOptions, an initial state.
SvgOptions == [height : {<<>>, <<10>>}, width : {<<>>, <<20>>},
               state : {<<>>, <<[height |-> <<>>, width |-> <<>>]>>,
                        <<[height |-> <<20>>, width |-> <<>>]>>}]

\* initialize(instance, options): the private state.
initialize(options) ==
    [height |-> IF options.height = <<>> THEN DefaultHeight ELSE options.height[1],
     width |-> IF options.width = <<>> THEN DefaultWidth ELSE options.width[1]]

\* Mutant of heightGet: the state is not consulted.
heightGetPrivate(state, priv) == priv.height

\* get height(): `const { height = privateStateMap.get(this).height } =
\* this.state || {}`
heightGet(state, priv) ==
    IF state # <<>> /\ state[1].height # <<>> THEN state[1].height[1]
    ELSE priv.height

\* get width()
widthGet(state, priv) ==
    IF state # <<>> /\ state[1].width # <<>> THEN state[1].width[1]
    ELSE priv.width

\* Mutant of tagNameGet: the setter stored what it was given.
tagNameGetAssigned(assigned) == IF assigned = <<>> THEN "svg" ELSE assigned[1]

\* get tagName(): `return 'svg'`
tagNameGet(assigned) == "svg"

\* One access: what was called, with what, what it returned, and how many
\* times it called invalidate() and setState().
SvgTurnOf(op, arg, result, invalidated, setState) ==
    [op |-> op, arg |-> arg, result |-> result, invalidated |-> invalidated,
     setState |-> setState]

NoSvgTurn == SvgTurnOf("none", <<>>, <<>>, 0, 0)

\* set height(height): with a state, this.setState({ height }), which merges
\* the field into the state; without, the private height and invalidate().
SvgSetHeight(height) ==
    /\ IF svgState # <<>>
       THEN /\ svgState' = <<[svgState[1] EXCEPT !.height = <<height>>]>>
            /\ svgPriv' = svgPriv
            /\ svgTurn' = SvgTurnOf("setHeight", <<height>>, <<>>, 0, 1)
       ELSE /\ svgPriv' = [svgPriv EXCEPT !.height = height]
            /\ svgState' = svgState
            /\ svgTurn' = SvgTurnOf("setHeight", <<height>>, <<>>, 1, 0)
    /\ UNCHANGED <<svgOptions, svgAssigned, cpVars, plotVars, pcVars>>

\* set width(width)
SvgSetWidth(width) ==
    /\ IF svgState # <<>>
       THEN /\ svgState' = <<[svgState[1] EXCEPT !.width = <<width>>]>>
            /\ svgPriv' = svgPriv
            /\ svgTurn' = SvgTurnOf("setWidth", <<width>>, <<>>, 0, 1)
       ELSE /\ svgPriv' = [svgPriv EXCEPT !.width = width]
            /\ svgState' = svgState
            /\ svgTurn' = SvgTurnOf("setWidth", <<width>>, <<>>, 1, 0)
    /\ UNCHANGED <<svgOptions, svgAssigned, cpVars, plotVars, pcVars>>

\* set tagName(noop) {}
SvgSetTagName(noop) ==
    /\ svgAssigned' = <<noop>>
    /\ svgTurn' = SvgTurnOf("setTagName", <<noop>>, <<>>, 0, 0)
    /\ UNCHANGED <<svgOptions, svgState, svgPriv, cpVars, plotVars, pcVars>>

\* A read of height, width or tagName.
SvgGet(op, result) ==
    /\ svgTurn' = SvgTurnOf(op, <<>>, <<result>>, 0, 0)
    /\ UNCHANGED <<svgOptions, svgState, svgPriv, svgAssigned, cpVars,
                   plotVars, pcVars>>

SvgGetHeight == SvgGet("getHeight", heightGet(svgState, svgPriv))
SvgGetWidth == SvgGet("getWidth", widthGet(svgState, svgPriv))
SvgGetTagName == SvgGet("getTagName", tagNameGet(svgAssigned))

\* ------------------------------------------------------ specifications
PlotIdle ==
    /\ series = <<>>
    /\ dirty = FALSE
    /\ handle = 0
    /\ destroyed = FALSE
    /\ mixDivCalls = 0
    /\ subs = <<>>
    /\ turn = NoTurn

PcIdle ==
    /\ pcData = <<>>
    /\ pcTimer = FALSE
    /\ pcSub = "idle"
    /\ pcAcc = <<>>
    /\ pcSnapshots = <<>>
    /\ pcOut = <<>>

CpUnset ==
    [columnHeight |-> <<>>, columnSpacing |-> <<>>, columnWidth |-> <<>>,
     domain |-> <<>>]

CpIdle ==
    /\ cpState = CpUnset
    /\ cpMixin = CpUnset
    /\ cpRead = NoRead

SvgNoOptions == [height |-> <<>>, width |-> <<>>, state |-> <<>>]

SvgIdle ==
    /\ svgOptions = SvgNoOptions
    /\ svgState = <<>>
    /\ svgPriv = initialize(SvgNoOptions)
    /\ svgAssigned = <<>>
    /\ svgTurn = NoSvgTurn

\* createColumnPlot(options): a plot with no input series yet.
Init ==
    /\ optDivisor \in OptionOperators \cup {NoOperator}
    /\ mixDivisor \in MixinOperators \cup {NoOperator}
    /\ optSelector \in OptionSelectors \cup {NoSelector}
    /\ mixSelector \in MixinSelectors \cup {NoSelector}
    /\ PlotIdle
    /\ PcIdle
    /\ pcAll = <<>>
    /\ pcKeyed = FALSE
    /\ CpIdle
    /\ SvgIdle

Next ==
    \/ \E k \in SourceKinds, e \in Emissions :
          InputSeriesChange([kind |-> k, first |-> IF k = "async" THEN <<>> ELSE e])
    \/ \E i \in 1..Len(subs), e \in Emissions : SourceEmit(i, e)
    \/ \E i \in 1..Len(subs) : SourceComplete(i)
    \/ \E i \in 1..Len(subs), d \in Divisors : DivisorEmit(i, d)
    \/ Destroy

Spec == Init /\ [][Next]_vars

\* getObservable(): the pipeline before anything subscribes.
InitPlay ==
    /\ pcAll \in UNION {[1..n -> PlayCounts] : n \in 0..MaxData}
    /\ pcKeyed \in BOOLEAN
    /\ PcIdle
    /\ PlotIdle
    /\ optDivisor = NoOperator
    /\ mixDivisor = NoOperator
    /\ optSelector = NoSelector
    /\ mixSelector = NoSelector
    /\ CpIdle
    /\ SvgIdle

NextPlay ==
    \/ PcSubscribe
    \/ PcTickNext
    \/ PcTickComplete
    \/ PcUnsubscribe

SpecPlay == InitPlay /\ [][NextPlay]_vars

ConfigIdle ==
    /\ optDivisor = NoOperator
    /\ mixDivisor = NoOperator
    /\ optSelector = NoSelector
    /\ mixSelector = NoSelector
    /\ pcAll = <<>>
    /\ pcKeyed = FALSE

\* A column plot with any state and any mixed-in defaults.
InitGeometry ==
    /\ cpState \in [columnHeight : {<<>>} \cup {<<n>> : n \in StateSizes},
                    columnSpacing : {<<>>} \cup {<<n>> : n \in StateSizes},
                    columnWidth : {<<>>} \cup {<<n>> : n \in StateSizes},
                    domain : {<<>>} \cup {<<d>> : d \in StateDomains}]
    /\ cpMixin \in [columnHeight : {<<>>} \cup {<<n>> : n \in MixinSizes},
                    columnSpacing : {<<>>} \cup {<<n>> : n \in MixinSizes},
                    columnWidth : {<<>>} \cup {<<n>> : n \in MixinSizes},
                    domain : {<<>>} \cup {<<d>> : d \in MixinDomains}]
    /\ cpRead = NoRead
    /\ SvgIdle
    /\ PlotIdle
    /\ PcIdle
    /\ ConfigIdle

NextGeometry ==
    \/ ReadColumnHeight
    \/ ReadColumnSpacing
    \/ ReadColumnWidth
    \/ ReadDomain

SpecGeometry == InitGeometry /\ [][NextGeometry]_vars

\* createSvgRootMixin(options): initialize() has run; createStateful gave
\* the instance the state of the options, if any.
InitSvgRoot ==
    /\ svgOptions \in SvgOptions
    /\ svgState = svgOptions.state
    /\ svgPriv = initialize(svgOptions)
    /\ svgAssigned = <<>>
    /\ svgTurn = NoSvgTurn
    /\ CpIdle
    /\ PlotIdle
    /\ PcIdle
    /\ ConfigIdle

NextSvgRoot ==
    \/ \E height \in SvgSizes : SvgSetHeight(height)
    \/ \E width \in SvgSizes : SvgSetWidth(width)
    \/ \E noop \in TagNames : SvgSetTagName(noop)
    \/ SvgGetHeight
    \/ SvgGetWidth
    \/ SvgGetTagName

SpecSvgRoot == InitSvgRoot /\ [][NextSvgRoot]_vars


\* ------------------------------------------------------------- claims
\* Every Column the subscribers have in hand: those of the last turn and
\* the plot's stored series.
ColumnsInHand ==
    {series[k] : k \in 1..Len(series)}
      \cup UNION {{turn.out[n][k] : k \in 1..Len(turn.out[n])} : n \in 1..Len(turn.out)}

OppositeSigns(c) ==
    \/ c.value < 0 /\ FracPos(c.relativeValue)
    \/ c.value > 0 /\ FracNeg(c.relativeValue)

\* C1: in every Column array columnar emits, no element has a value and a
\* relativeValue of strictly opposite signs, whatever the inputs and the
\* divisors (negative and zero divisors included).
C1_SignsNeverOpposite == \A c \in ColumnsInHand : ~OppositeSigns(c)

\* A Column whose relative value was negated: a negative value over a
\* negative divisor.
C1_Witness ==
    \E c \in ColumnsInHand :
        c.value < 0 /\ c.relativeValue[2] < 0 /\ FracNeg(c.relativeValue)

\* C2: one subscription to the columnar output subscribes to the source
\* exactly once, for every source and every divisor operator.
C2_SourceSubscribedOnce == \A i \in 1..Len(subs) : subs[i].srcSubs = 1

\* C3: the output emits nothing before the shared source and the divisor
\* stream have each produced a value.
C3_NoOutputBeforeBoth ==
    turn.out # <<>> => subs[turn.sub].sharedEmitted /\ subs[turn.sub].divEmitted

\* The output emitted in a later turn than the one that subscribed, after
\* a turn in which only one side had produced a value.
C3_Witness ==
    /\ turn.kind \in {"source", "divisor"}
    /\ turn.out # <<>>
    /\ subs[turn.sub].sharedEmitted /\ subs[turn.sub].divEmitted

\* The selector the caller supplied: the option, else the mixed-in one.
CallerSelector == IF optSelector # NoSelector THEN optSelector ELSE mixSelector

CallerThrows(e) == \E k \in 1..Len(e) : ~ApplySelector(CallerSelector, e[k]).ok

\* cols is the Column array of inputs e under divisor d: element by
\* element the input, its selected value, and value / d or its opposite.
ColumnsOf(cols, e, d) ==
    /\ Len(cols) = Len(e)
    /\ \A k \in 1..Len(e) :
          LET v == ApplySelector(CallerSelector, e[k]).v
          IN  /\ cols[k].input = e[k]
              /\ cols[k].value = v
              /\ \/ FracEq(cols[k].relativeValue, <<v, d>>)
                 \/ FracEq(cols[k].relativeValue, <<-v, d>>)

\* What the claim says of a turn of subscription i, live and with both
\* sides seen before the turn.
C4_Step(i) ==
    /\ turn'.kind = "source" /\ subs[i].conn /\ ~CallerThrows(turn'.arg)
       => /\ turn'.out # <<>>
          /\ ColumnsOf(turn'.out[1], turn'.arg, subs[i].latestDiv[1])
          /\ IF subs[i].divShared = "live"
             THEN /\ Len(turn'.out) = 2
                  /\ ColumnsOf(turn'.out[2], turn'.arg, subs'[i].latestDiv[1])
             ELSE Len(turn'.out) = 1
    /\ turn'.kind = "divisor" /\ turn'.arg # <<>>
          /\ ~CallerThrows(subs[i].latestSrc[1])
       => /\ Len(turn'.out) = 1
          /\ ColumnsOf(turn'.out[1], subs[i].latestSrc[1], turn'.arg[1])

\* C4: once the source and the divisor stream have both emitted, each
\* further source emission gives one output from those inputs and the
\* latest divisor, and each further divisor emission one output from the
\* latest inputs and that divisor; every relativeValue is value / divisor
\* up to the sign correction.
C4_CombineLatest ==
    [][\A i \in 1..Len(subs) :
          (/\ turn'.sub = i
           /\ subs[i].out = "live"
           /\ subs[i].latestSrc # <<>>
           /\ subs[i].latestDiv # <<>>) => C4_Step(i)]_vars

\* A source emission, after both sides had emitted, that gave one output
\* of two columns.
C4_Witness ==
    /\ turn.kind = "source"
    /\ Len(turn.out) = 1
    /\ Len(turn.out[1]) = 2
    /\ subs[turn.sub].out = "live"


\* C5: unsubscribing from the columnar output unsubscribes every internal
\* subscription, the shared source's and the divisor stream's; afterwards
\* no source or divisor event reaches the subscriber, and once the plot's
\* handle is destroyed its stored series no longer changes.
C5_UnsubscribeReleasesAll ==
    [][/\ \A i \in 1..Len(subs') :
             subs'[i].out = "unsubscribed"
             => /\ ~subs'[i].conn
                /\ subs'[i].relShared # "live"
                /\ subs'[i].divShared # "live"
                /\ subs'[i].divSub # "live"
       /\ \A i \in 1..Len(subs) :
             subs[i].out = "unsubscribed"
             => /\ subs'[i].out = "unsubscribed"
                /\ turn'.sub = i => turn'.out = <<>>
       /\ destroyed => series' = series /\ dirty' = dirty]_vars

\* After the plot was destroyed with a series stored, the source of its
\* subscription emitted once more.
C5_Witness ==
    /\ destroyed
    /\ series # <<>>
    /\ turn.kind = "source"
    /\ subs[turn.sub].out = "unsubscribed"
    /\ subs[turn.sub].sharedEmitted

\* C6: unsubscribing from getObservable() before the source completed
\* releases the interval: afterwards the callback runs no more, so no record
\* is shifted and the handle stays as it is.
C6_UnsubscribeStopsTimer ==
    [][pcSub = "unsubscribed" => pcData' = pcData /\ pcTimer' = pcTimer]_vars

\* The error the caller's selector throws on the first input of e it
\* throws on.
ThrownOn(e) ==
    LET bad == {k \in 1..Len(e) : ~ApplySelector(CallerSelector, e[k]).ok}
    IN  ApplySelector(CallerSelector, e[CHOOSE k \in bad : \A j \in bad : k <= j]).err

\* The output of subscription i ended with the error thrown on e, and the
\* turn gave the subscriber nothing.
EndedWith(i, e) ==
    /\ subs'[i].out = "error"
    /\ subs'[i].err = <<ThrownOn(e)>>
    /\ turn'.out = <<>>
    /\ series' = series

\* What the claim says of one turn of subscription i.
C7_Step(i) ==
    /\ (/\ turn'.kind = "source"
        /\ subs[i].out = "live" /\ subs[i].conn
        /\ subs[i].latestDiv # <<>> \/ subs[i].divShared = "live"
        /\ CallerThrows(turn'.arg)) => EndedWith(i, turn'.arg)
    /\ (/\ turn'.kind = "divisor" /\ turn'.arg # <<>>
        /\ subs[i].out = "live"
        /\ subs[i].latestSrc # <<>>
        /\ CallerThrows(subs[i].latestSrc[1])) => EndedWith(i, subs[i].latestSrc[1])
    /\ (turn'.kind = "subscribe" /\ CallerThrows(turn'.arg))
       => \/ EndedWith(i, turn'.arg)
          \/ /\ subs'[i].out = "live"
             /\ subs'[i].latestDiv = <<>>
             /\ turn'.out = <<>>

\* C7: a selector that throws while columnar processes an emission, in
\* relativeValues, in map() or inside the divisor operator's stream, ends
\* the output with that error: the emission gives no Column array, nothing
\* is emitted afterwards, and the error is the one thrown.
C7_ThrowEndsOutput ==
    [][/\ \A i \in 1..Len(subs') : turn'.sub = i => C7_Step(i)
       /\ \A i \in 1..Len(subs) :
             subs[i].out = "error"
             => /\ subs'[i].out = "error"
                /\ turn'.sub = i => turn'.out = <<>>]_vars

\* An output that ended with the selector's error, whose source emitted
\* once more afterwards.
C7_Witness ==
    /\ turn.kind = "source"
    /\ subs[turn.sub].out = "error"
    /\ subs[turn.sub].err = <<[by |-> "option", input |-> 0]>>
    /\ series # <<>>

\* C8: the plot's divisor operator is the option if one was passed,
\* otherwise the mixed-in operator if there is one, otherwise a stream that
\* emits 1 once; with the option passed the mixed-in operator is never
\* called.
C8_OperatorResolution ==
    /\ \A i \in 1..Len(subs) :
          subs[i].op = IF optDivisor # NoOperator THEN optDivisor
                       ELSE IF mixDivisor # NoOperator THEN mixDivisor
                       ELSE [id |-> "default", kind |-> "of", d |-> 1]
    /\ optDivisor # NoOperator => mixDivCalls = 0
    /\ optDivisor = NoOperator /\ mixDivisor # NoOperator => mixDivCalls = Len(subs)
    /\ optDivisor = NoOperator /\ mixDivisor = NoOperator
       => /\ mixDivCalls = 0
          /\ \A i \in 1..Len(subs) :
                subs[i].out = "live"
                => /\ subs[i].latestDiv = <<1>>
                   /\ subs[i].divEmitted
                   /\ subs[i].divSub = "done"

\* A plot given both an option and a mixed-in operator, subscribed and fed.
C8_Witness ==
    /\ optDivisor # NoOperator
    /\ mixDivisor # NoOperator
    /\ Len(subs) > 0
    /\ turn.out # <<>>

\* C9: the plot's value selector is the option if one was passed, otherwise
\* the mixed-in selector if there is one, otherwise every value is 0.
C9_SelectorResolution ==
    \A c \in ColumnsInHand :
        c.value = IF optSelector # NoSelector THEN ApplySelector(optSelector, c.input).v
                  ELSE IF mixSelector # NoSelector
                       THEN ApplySelector(mixSelector, c.input).v
                  ELSE 0

\* With neither option nor mixin, a stored Column of a non-zero input.
C9_Witness ==
    /\ optSelector = NoSelector
    /\ mixSelector = NoSelector
    /\ \E k \in 1..Len(series) : series[k].input # 0 /\ series[k].value = 0

DistinctKeys(recs) ==
    \A j, k \in 1..Len(recs) : j # k => AccKey(recs[j]) # AccKey(recs[k])

\* C10: fed inputs with pairwise distinct keys, accumulate's n-th snapshot
\* is the first n inputs in the order they came, so the last snapshot is as
\* long as the input.
C10_SnapshotsArePrefixes ==
    DistinctKeys(pcAll)
    => /\ \A n \in 1..Len(pcSnapshots) : pcSnapshots[n] = SubSeq(pcAll, 1, n)
       /\ pcSub = "complete"
          => /\ Len(pcSnapshots) = Len(pcAll)
             /\ pcAll # <<>> => Len(pcSnapshots[Len(pcSnapshots)]) = Len(pcAll)

\* A keyed accumulator that took several records of distinct keys to the
\* source's completion.
C10_Witness ==
    /\ pcSub = "complete"
    /\ pcKeyed
    /\ Len(pcAll) > 1
    /\ DistinctKeys(pcAll)
    /\ Len(pcSnapshots) = Len(pcAll)

\* Number of distinct keys among the first n inputs.
KeysSeen(n) == Cardinality({AccKey(pcAll[j]) : j \in 1..n})

\* The first input with the key of the n-th.
FirstWithKey(n) ==
    CHOOSE j \in 1..n : /\ AccKey(pcAll[j]) = AccKey(pcAll[n])
                        /\ \A i \in 1..(j - 1) : AccKey(pcAll[i]) # AccKey(pcAll[n])

\* C11: a keyed accumulate given an input whose key was seen before emits a
\* snapshot as long as the one before, the earlier entry replaced by the
\* input at the position the key took when it was first seen; a snapshot is
\* as long as the number of distinct keys received.
C11_UpsertInPlace ==
    pcKeyed =>
      \A n \in 1..Len(pcSnapshots) :
         /\ Len(pcSnapshots[n]) = KeysSeen(n)
         /\ pcSnapshots[n][KeysSeen(FirstWithKey(n))] = pcAll[n]
         /\ FirstWithKey(n) < n =>
               /\ Len(pcSnapshots[n]) = Len(pcSnapshots[n - 1])
               /\ \A k \in 1..Len(pcSnapshots[n]) :
                     k # KeysSeen(FirstWithKey(n))
                     => pcSnapshots[n][k] = pcSnapshots[n - 1][k]

\* The scenario A:10, B:5, A:12: the third input replaces the first where
\* it stands.
C11_Witness ==
    /\ pcKeyed
    /\ Len(pcSnapshots) = 3
    /\ AccKey(pcAll[1]) = AccKey(pcAll[3])
    /\ AccKey(pcAll[1]) # AccKey(pcAll[2])
    /\ pcAll[1].count # pcAll[3].count
    /\ pcSnapshots[3] = <<pcAll[3], pcAll[2]>>

\* The elements of s whose sort key is key, in the order they have in s.
WithKey(s, key) == SelectSeq(s, LAMBDA x : SortKey(x) = key)

SortKeys == {SortKey(rec) : rec \in PlayCounts}

\* C12: every sequence sort emits has its elements in ascending order of
\* their keys, and for each key holds exactly the input's elements of that
\* key in the input's order (a permutation, and stable); sorting the
\* emitted sequence again returns it unchanged.
C12_SortStable ==
    \A n \in 1..Len(pcOut) :
       /\ Len(pcOut[n]) = Len(pcSnapshots[n])
       /\ \A k \in 1..(Len(pcOut[n]) - 1) :
             SortKey(pcOut[n][k]) <= SortKey(pcOut[n][k + 1])
       /\ \A key \in SortKeys :
             WithKey(pcOut[n], key) = WithKey(pcSnapshots[n], key)
       /\ Sort(pcOut[n]) = pcOut[n]

\* A snapshot out of order, with two different elements of the same key
\* ("The X" after "X" or before), was sorted.
C12_Witness ==
    \E n \in 1..Len(pcOut) :
       /\ pcOut[n] # pcSnapshots[n]
       /\ \E j, k \in 1..Len(pcOut[n]) :
             /\ j < k
             /\ SortKey(pcOut[n][j]) = SortKey(pcOut[n][k])
             /\ pcOut[n][j] # pcOut[n][k]

\* What the pipeline's subscriber has received is one sorted snapshot for
\* each record the source has handed out, in the records' order.
PcOneSnapshotPerRecord ==
    pcSub \in {"subscribed", "complete"} =>
      /\ Len(pcOut) = Len(pcAll) - Len(pcData)
      /\ Len(pcSnapshots) = Len(pcOut)
      /\ \A n \in 1..Len(pcOut) :
            /\ pcOut[n] = Sort(pcSnapshots[n])
            /\ \E k \in 1..Len(pcSnapshots[n]) : pcSnapshots[n][k] = pcAll[n]

\* A step of the pipeline: a record adds one snapshot, the completion comes
\* with no record left and adds none, and nothing follows the completion.
PcStep ==
    /\ Len(pcData') < Len(pcData) /\ pcSub = "subscribed"
         => Len(pcOut') = Len(pcOut) + 1 /\ SubSeq(pcOut', 1, Len(pcOut)) = pcOut
    /\ pcSub = "subscribed" /\ pcSub' = "complete"
         => pcData = <<>> /\ pcOut' = pcOut /\ Len(pcOut) = Len(pcAll)
    /\ pcSub = "complete" => pcOut' = pcOut /\ pcSub' = "complete"

\* C13: in the accumulate -> sort pipeline each record of the source gives
\* exactly one snapshot, the snapshots come in the records' order, the
\* output completes on the tick after the last record without another
\* snapshot, and nothing is emitted after the completion.
C13_OneSnapshotPerRecord == []PcOneSnapshotPerRecord /\ [][PcStep]_vars

\* The pipeline ran several records to completion.
C13_Witness ==
    /\ pcSub = "complete"
    /\ Len(pcAll) > 1
    /\ Len(pcOut) = Len(pcAll)
    /\ ~pcTimer

\* The field of the state if present, otherwise the mixed-in default if
\* present, otherwise 0.
StateMixinOrZero(inState, mixedIn) ==
    IF inState # <<>> THEN inState
    ELSE IF mixedIn # <<>> THEN mixedIn
    ELSE <<0>>

\* C14: getColumnHeight(), getColumnSpacing() and getColumnWidth() return
\* the state's field of that name when the state has it, otherwise the
\* instance's mixed-in default of that name, otherwise 0.
C14_GeometryFallback ==
    /\ cpRead.prop = "columnHeight"
         => cpRead.v = StateMixinOrZero(cpState.columnHeight, cpMixin.columnHeight)
    /\ cpRead.prop = "columnSpacing"
         => cpRead.v = StateMixinOrZero(cpState.columnSpacing, cpMixin.columnSpacing)
    /\ cpRead.prop = "columnWidth"
         => cpRead.v = StateMixinOrZero(cpState.columnWidth, cpMixin.columnWidth)

\* A columnHeight of 0 in the state is returned although a default other
\* than 0 is mixed in.
C14_Witness ==
    /\ cpRead.prop = "columnHeight"
    /\ cpState.columnHeight = <<0>>
    /\ cpMixin.columnHeight = <<3>>
    /\ cpRead.v = <<0>>

\* The domain getDomain() starts from: the state's, otherwise the mixed-in
\* one, otherwise none.
GivenDomain == IF cpState.domain # <<>> THEN cpState.domain ELSE cpMixin.domain

\* C15: getDomain() returns two elements: for a single number d in the
\* state or mixed in, [d, 0] when d < 0, [0, d] when d > 0 and [0, 0] when
\* d = 0; a pair as it is; [0, 0] with no domain in the state and none mixed
\* in.
C15_DomainNormalised ==
    cpRead.prop = "domain" =>
      /\ Len(cpRead.v) = 2
      /\ GivenDomain = <<>> => cpRead.v = <<0, 0>>
      /\ GivenDomain # <<>> /\ GivenDomain[1].isArray => cpRead.v = GivenDomain[1].v
      /\ GivenDomain # <<>> /\ ~GivenDomain[1].isArray =>
           /\ GivenDomain[1].v[1] < 0 => cpRead.v = <<GivenDomain[1].v[1], 0>>
           /\ GivenDomain[1].v[1] > 0 => cpRead.v = <<0, GivenDomain[1].v[1]>>
           /\ GivenDomain[1].v[1] = 0 => cpRead.v = <<0, 0>>

\* A negative number mixed in, no domain in the state.
C15_Witness ==
    /\ cpRead.prop = "domain"
    /\ cpState.domain = <<>>
    /\ cpMixin.domain = <<DomainNumber(-4)>>
    /\ cpRead.v = <<-4, 0>>

\* Every read of tagName returned 'svg'.
SvgTagNameRead == svgTurn.op = "getTagName" => svgTurn.result = <<"svg">>

\* An assignment to tagName leaves the state, the private state and what
\* height and width read as they were, and calls nothing.
SvgTagNameStep ==
    svgTurn'.op = "setTagName" =>
      /\ svgState' = svgState
      /\ svgPriv' = svgPriv
      /\ heightGet(svgState', svgPriv') = heightGet(svgState, svgPriv)
      /\ widthGet(svgState', svgPriv') = widthGet(svgState, svgPriv)
      /\ tagNameGet(svgAssigned') = "svg"
      /\ svgTurn'.invalidated = 0
      /\ svgTurn'.setState = 0

\* C16: the tagName of an SvgRoot is 'svg' in every reachable state: after
\* any assignments to tagName, height or width a read of tagName returns
\* 'svg', and an assignment to tagName changes nothing.
C16_TagNameAlwaysSvg == []SvgTagNameRead /\ [][SvgTagNameStep]_vars

\* tagName read after it was assigned and the height was changed.
C16_Witness ==
    /\ svgTurn.op = "getTagName"
    /\ svgAssigned # <<>>
    /\ heightGet(svgState, svgPriv) # heightGet(svgOptions.state, initialize(svgOptions))

\* An instance created without options has the defaults; a read of height
\* or width returned the state's value if the state defines it, otherwise
\* the private one.
SvgSizeRead ==
    /\ svgTurn.op = "none" /\ svgOptions = SvgNoOptions
         => /\ heightGet(svgState, svgPriv) = 150
            /\ widthGet(svgState, svgPriv) = 300
    /\ svgTurn.op = "getHeight"
         => svgTurn.result =
              IF svgState # <<>> /\ svgState[1].height # <<>>
              THEN svgState[1].height ELSE <<svgPriv.height>>
    /\ svgTurn.op = "getWidth"
         => svgTurn.result =
              IF svgState # <<>> /\ svgState[1].width # <<>>
              THEN svgState[1].width ELSE <<svgPriv.width>>

\* An assignment to height or width: with a state, one setState() that
\* sets the field; without, the private field and one invalidate().  The
\* other dimension reads as before.
SvgSizeStep ==
    /\ svgTurn'.op = "setHeight" =>
         /\ heightGet(svgState', svgPriv') = svgTurn'.arg[1]
         /\ widthGet(svgState', svgPriv') = widthGet(svgState, svgPriv)
         /\ IF svgState # <<>>
            THEN /\ svgTurn'.setState = 1 /\ svgTurn'.invalidated = 0
                 /\ svgState'[1].height = svgTurn'.arg
                 /\ svgPriv' = svgPriv
            ELSE /\ svgTurn'.setState = 0 /\ svgTurn'.invalidated = 1
                 /\ svgPriv'.height = svgTurn'.arg[1]
                 /\ svgPriv'.width = svgPriv.width
                 /\ svgState' = <<>>
    /\ svgTurn'.op = "setWidth" =>
         /\ widthGet(svgState', svgPriv') = svgTurn'.arg[1]
         /\ heightGet(svgState', svgPriv') = heightGet(svgState, svgPriv)
         /\ IF svgState # <<>>
            THEN /\ svgTurn'.setState = 1 /\ svgTurn'.invalidated = 0
                 /\ svgState'[1].width = svgTurn'.arg
                 /\ svgPriv' = svgPriv
            ELSE /\ svgTurn'.setState = 0 /\ svgTurn'.invalidated = 1
                 /\ svgPriv'.width = svgTurn'.arg[1]
                 /\ svgPriv'.height = svgPriv.height
                 /\ svgState' = <<>>

\* C17: height and width of an SvgRoot default to 150 and 300; a read
\* returns the state's value when the state defines it, otherwise the
\* private one; an assignment goes to the state by setState() when the
\* instance has a state, otherwise to the private value with one call of
\* invalidate(), and leaves the other dimension unchanged.
C17_SizeDefaultsAndSetters == []SvgSizeRead /\ [][SvgSizeStep]_vars

\* A state that defines the height, over a private height that differs, was
\* read after the width was assigned.
C17_Witness ==
    /\ svgTurn.op = "getHeight"
    /\ svgState # <<>>
    /\ svgState[1].height = <<20>>
    /\ svgState[1].width # <<>>
    /\ svgPriv.height = 150
    /\ svgTurn.result = <<20>>

\* The subscriptions whose subscriber is still open.
LiveSubs == {i \in 1..Len(subs) : subs[i].out = "live"}

\* At most one columnar subscription is live: the latest made, the one
\* `handle` destroys.
PlotOneLive ==
    /\ Cardinality(LiveSubs) <= 1
    /\ \A i \in LiveSubs : i = Len(subs) /\ i = handle

\* A turn of a replaced input series hands the plot's subscriber nothing
\* and leaves the stored series as it is; a new subscription is made with
\* the ones before it closed.
PlotReplacedSilent ==
    /\ turn'.kind \in {"source", "complete", "divisor"} /\ turn'.sub < Len(subs)
         => turn'.out = <<>> /\ series' = series /\ dirty' = dirty
    /\ turn'.kind = "subscribe" /\ Len(subs') > Len(subs)
         => \A i \in 1..Len(subs) : subs'[i].out # "live" /\ ~subs'[i].conn

\* C18: a column plot holds at most one live columnar subscription: on
\* every 'inputserieschange' the subscription to the previous input series
\* is unsubscribed before the new one is made, so an emission of a replaced
\* input series never overwrites the stored series.
C18_OneLiveSubscription == []PlotOneLive /\ [][PlotReplacedSilent]_vars

\* The first input series, replaced while open, emitted after the second
\* had given the plot a series.
C18_Witness ==
    /\ Len(subs) = 2
    /\ turn.kind = "source"
    /\ turn.sub = 1
    /\ subs[1].out = "unsubscribed"
    /\ subs[2].out = "live"
    /\ series # <<>>

=============================================================================
